---- MODULE Spec2Model ----
(***************************************************************************)
(* Model of the e-commerce product-URL crawler: the per-domain crawl       *)
(* engine (crawler/domain_crawler.py), the worker entry point              *)
(* (crawler/crawler_manager.py) and the orchestrator loop (main.py).       *)
(*                                                                         *)
(* A run is: main truncates the output file, submits one task per domain   *)
(* string to a pool of worker processes, and merges every completed        *)
(* result into the output file.  Each task builds a DomainCrawler, loads   *)
(* robots.txt, crawls depth-first from the domain root, writes its result  *)
(* to the output file under DomainCrawler._file_write_lock and returns.    *)
(*                                                                         *)
(* Spec covers the runs of one domain, SpecPool those of several domains   *)
(* at once, SpecThree one run of three distinct domain strings, and        *)
(* SpecCrawl the runs of one domain with every worker taking its steps.    *)
(***************************************************************************)
EXTENDS Integers, Sequences, FiniteSets, TLC

VARIABLES
    domains,              \* main: the list of domain strings (sys.argv[1:])
    shape,                \* the link graph the crawled sites serve
    robots_txt,           \* the robots.txt the crawled sites serve (list of lines)
    net,                  \* how the network behaves in this run (see NetResponses)
    loads,                \* per task: how the two loads of robots.txt ended
    phase,                \* per task: position of the worker in _crawl_domain_sync / crawl
    proc,                 \* per task: the pool process running it (0: none)
    visited_urls,         \* per task: DomainCrawler.visited_urls
    product_urls,         \* per task: DomainCrawler.product_urls
    cache,                \* per task: DomainCrawler.cache (url -> body)
    robot_parser,         \* per task: DomainCrawler.robot_parser
    effective_user_agent, \* per task: DomainCrawler.effective_user_agent
    stack,                \* per task: the frames of the recursive _crawl_url calls
    fetch,                \* per task: the locals of the running _fetch call
    fetchLog,             \* per task: every _fetch call made so far, as <<url, depth>>
    existing_data,        \* per task: local existing_data of _write_final_results
    lock,                 \* per process: its copy of DomainCrawler._file_write_lock
    file,                 \* the output file OUTPUT_JSON
    future,               \* per task: the future executor.submit returned
    results,              \* main: manager.results
    orch                  \* main: position and locals of the as_completed loop

vars == <<domains, shape, robots_txt, net, loads, phase, proc, visited_urls, product_urls, cache,
          robot_parser, effective_user_agent, stack, fetch, fetchLog, existing_data,
          lock, file, future, results, orch>>

engineVars == <<visited_urls, product_urls, cache, stack, fetch, fetchLog>>
robotVars  == <<robot_parser, effective_user_agent, loads>>
worldVars  == <<domains, shape, robots_txt, net>>
mainVars   == <<future, results, orch>>

----------------------------------------------------------------------------
(* Bounds of the model *)

\* pages 0..NumPages-1 of a site; a chain of them is one longer than MAX_DEPTH allows
NumPages == 6
\* most lines of a generated robots.txt
MaxRobotsLen == 3
\* most domain strings given on the command line
MaxDomains == 2

(* Program constants *)

MAX_DEPTH == 4
max_retries == 3
max_workers == 4
ErrorSleep == 2

----------------------------------------------------------------------------
(* Plain helpers *)

EmptyMap == [x \in {} |-> {}]

MapPut(m, k, v) == [x \in (DOMAIN m) \cup {k} |-> IF x = k THEN v ELSE m[x]]

Min(S) == CHOOSE x \in S : \A y \in S : x <= y

RECURSIVE SeqsUpTo(_, _)
\* all sequences over S of length at most n
SeqsUpTo(S, n) ==
    IF n = 0 THEN {<<>>}
    ELSE LET shorter == SeqsUpTo(S, n - 1)
         IN  shorter \cup {Append(s, x) : s \in {q \in shorter : Len(q) = n - 1}, x \in S}

\* s occurs in t as a contiguous run (Python: s in t)
IsInfix(s, t) ==
    \E i \in 0..(Len(t) - Len(s)) : \A j \in 1..Len(s) : t[i + j] = s[j]

\* t starts with s (Python: t.startswith(s))
StartsWith(t, s) ==
    /\ Len(s) <= Len(t)
    /\ \A j \in 1..Len(s) : t[j] = s[j]

----------------------------------------------------------------------------
(* Domain strings and URLs *)

\* The domain strings a caller may give.  "http://a.com" and "a.com" name the
\* same site with different raw strings.
DomainStrings == {"a.com", "b.com", "http://a.com"}

\* The domain strings of the runs with several domains at once
PoolStrings == {"a.com", "b.com"}

\* urlparse(domain).scheme or "http"
Scheme(d) == "http"

\* urlparse(domain).netloc if present, else its path; a host is its list of labels
Netloc(d) == IF d = "b.com" THEN <<"b", "com">> ELSE <<"a", "com">>

\* A URL is its host, the kind of its path and a number:
\*   page n: "/" for n = 0, else "/c/n";  prod n: "/product/w/100000n";
\*   priv n: "/private/n"
Url(h, k, n) == [host |-> h, kind |-> k, n |-> n]

\* self.base_url
BaseUrl(d) == Url(Netloc(d), "page", 0)

\* the path of a URL, as its list of segments
Path(u) ==
    CASE u.kind = "page" -> IF u.n = 0 THEN <<>> ELSE <<"c", u.n>>
      [] u.kind = "prod" -> <<"product", "w", u.n>>
      [] u.kind = "priv" -> <<"private", u.n>>

\* hosts met while crawling the site at host h
SubHost(h)  == <<"shop">> \o h          \* a subdomain: contains h
LongHost(h) == h \o <<"evil">>          \* another site whose name contains h
OtherHost   == <<"cdn", "net">>         \* a site that does not

Hosts(h) == {h, SubHost(h), LongHost(h), OtherHost}

HostRank(u) ==
    IF u.host = OtherHost THEN 0
    ELSE IF Len(u.host) = 2 THEN (IF u.host[1] = "a" THEN 1 ELSE 2)
    ELSE IF u.host[1] = "shop" THEN (IF u.host[2] = "a" THEN 3 ELSE 4)
    ELSE (IF u.host[1] = "a" THEN 5 ELSE 6)

KindRank(u) == CASE u.kind = "page" -> 0 [] u.kind = "priv" -> 1 [] u.kind = "prod" -> 2

\* the order sorted() puts URL strings in
UrlLess(u, v) ==
    \/ HostRank(u) < HostRank(v)
    \/ HostRank(u) = HostRank(v) /\ KindRank(u) < KindRank(v)
    \/ HostRank(u) = HostRank(v) /\ KindRank(u) = KindRank(v) /\ u.n < v.n

RECURSIVE Sorted(_)
\* sorted(S): the elements of S in ascending order, each once
Sorted(S) ==
    IF S = {} THEN <<>>
    ELSE LET m == CHOOSE x \in S : \A y \in S \ {x} : UrlLess(x, y)
         IN  <<m>> \o Sorted(S \ {m})

SeqToSet(s) == {s[i] : i \in 1..Len(s)}

----------------------------------------------------------------------------
(* The crawled sites: what the server returns *)

Pg(h, i) == Url(h, "page", i)

\* The <a href> targets of the page at u of the site at host h, in document
\* order and already resolved by urljoin, for each link graph of the family.
Links(sh, h, u) ==
    CASE sh = "chain" ->
            IF u.kind = "page" /\ u.n + 1 < NumPages THEN <<Pg(h, u.n + 1)>> ELSE <<>>
      [] sh = "loop" ->
            IF u.kind = "page"
            THEN <<Pg(h, u.n), Pg(h, (u.n + 1) % NumPages), Pg(h, 0)>>
            ELSE <<>>
      [] sh = "shop" ->
            IF u.kind = "page"
            THEN (IF u.n + 1 < NumPages THEN <<Pg(h, u.n + 1)>> ELSE <<>>)
                 \o <<Url(h, "prod", u.n)>>
            ELSE <<>>
      [] sh = "short" ->
            IF u.kind = "page" /\ u.n = 0 THEN <<Pg(h, 1), Pg(h, MAX_DEPTH)>>
            ELSE IF u.kind = "page" /\ u.n + 1 < NumPages THEN <<Pg(h, u.n + 1)>>
            ELSE <<>>
      [] sh = "mixed" ->
            IF u.kind = "page" /\ u.n = 0
            THEN <<Url(OtherHost, "prod", 1), Url(SubHost(h), "prod", 1),
                   Url(h, "priv", 1), Url(LongHost(h), "page", 2)>>
            ELSE IF u.kind = "priv" THEN <<Url(h, "prod", 4), Pg(h, 0)>>
            ELSE <<>>
      [] sh = "tiny" ->
            IF u.kind = "page" /\ u.n = 0 THEN <<Url(h, "priv", 1), Url(h, "prod", 1)>>
            ELSE <<>>
      [] sh = "leaf" ->
            IF u.kind = "page" /\ u.n = 0 THEN <<Url(h, "prod", 1)>> ELSE <<>>

CrawlShapes == {"chain", "loop", "shop", "short", "mixed"}

\* What one GET may answer: a status with, for 429, its Retry-After header
\* ("absent": no header), or a network error / timeout.
RetryAfterValues == {"absent", "2", "soon"}

Responses ==
    {[status |-> 200, retry |-> "absent"], [status |-> 404, retry |-> "absent"],
     [status |-> 0, retry |-> "absent"]}
    \cup {[status |-> 429, retry |-> r] : r \in RetryAfterValues}

\* status 0 stands for aiohttp.ClientError / asyncio.TimeoutError
NetworkError == 0

\* The answers of a calm network: every page is served or is missing, or the
\* server throttles with a Retry-After that is no number
CalmResponses ==
    {[status |-> 200, retry |-> "absent"], [status |-> 404, retry |-> "absent"],
     [status |-> 429, retry |-> "soon"]}

\* net.pages = "any": every answer to a page request, else the calm ones
NetResponses == IF net.pages = "any" THEN Responses ELSE CalmResponses

\* int(s) of a header value: <<n>> when s is a decimal number, <<>> when int raises
ParseInt(s) ==
    CASE s = "2" -> <<2>>
      [] s = "5" -> <<5>>
      [] OTHER   -> <<>>

----------------------------------------------------------------------------
(* Product classifier *)

\* indices into config.PRODUCT_PATTERNS
PRODUCT_PATTERNS == <<"pd_rd_r", "iid=", "[0-9]{6,10}/buy", "product/[^/]+/[0-9]{7,}",
                      "/p/[0-9]{7,}">>

\* re.search(pattern, url) on the URLs of the model: only "/product/w/<7 digits>"
\* has a shape the patterns describe
Matches(pattern, u) ==
    /\ pattern = "product/[^/]+/[0-9]{7,}"
    /\ u.kind = "prod"

_is_product_url(u) ==
    \E i \in 1..Len(PRODUCT_PATTERNS) : Matches(PRODUCT_PATTERNS[i], u)

\* the same-site test left out: every link counts as one of the site
SameSiteAny(netloc, u) == TRUE

\* self.netloc in parsed_url.netloc
SameSite(netloc, u) == IsInfix(netloc, u.host)

----------------------------------------------------------------------------
(* robots.txt *)

AgentTokens == {"*", "Googlebot", "Bingbot"}

\* The lines a robots.txt of the model is made of
RobotsLines ==
    {[k |-> "ua", v |-> a] : a \in AgentTokens}
    \cup {[k |-> "dis", v |-> <<"private">>], [k |-> "blank", v |-> <<>>]}

NoEntry == [useragents |-> <<>>, rulelines |-> <<>>]

\* A fresh RobotFileParser; default_entry is <<>> for None, else <<entry>>
NewParser ==
    [entries |-> <<>>, default_entry |-> <<>>, disallow_all |-> FALSE,
     allow_all |-> FALSE, last_checked |-> FALSE]

\* RobotFileParser._add_entry
AddEntry(p, entry) ==
    IF \E i \in 1..Len(entry.useragents) : entry.useragents[i] = "*"
    THEN (IF p.default_entry = <<>> THEN [p EXCEPT !.default_entry = <<entry>>] ELSE p)
    ELSE [p EXCEPT !.entries = Append(@, entry)]

\* one line of RobotFileParser.parse; st is [p, state, entry]
ParseLine(st, line) ==
    CASE line.k = "blank" ->
            IF st.state = 1 THEN [st EXCEPT !.entry = NoEntry, !.state = 0]
            ELSE IF st.state = 2
                 THEN [p |-> AddEntry(st.p, st.entry), state |-> 0, entry |-> NoEntry]
                 ELSE st
      [] line.k = "ua" ->
            LET s1 == IF st.state = 2
                      THEN [st EXCEPT !.p = AddEntry(st.p, st.entry), !.entry = NoEntry]
                      ELSE st
            IN  [s1 EXCEPT !.entry.useragents = Append(@, line.v), !.state = 1]
      [] line.k = "dis" ->
            IF st.state # 0
            THEN [st EXCEPT !.entry.rulelines =
                                Append(@, [path |-> line.v, allowance |-> FALSE]),
                            !.state = 2]
            ELSE st

RECURSIVE ParseLines(_, _)
ParseLines(st, lines) ==
    IF lines = <<>> THEN st ELSE ParseLines(ParseLine(st, Head(lines)), Tail(lines))

\* RobotFileParser.parse(lines) on parser p
Parse(p, lines) ==
    LET st == ParseLines([p |-> [p EXCEPT !.last_checked = TRUE], state |-> 0,
                          entry |-> NoEntry], lines)
    IN  IF st.state = 2 THEN AddEntry(st.p, st.entry) ELSE st.p

\* Entry.applies_to(useragent)
AppliesTo(entry, useragent) ==
    \E i \in 1..Len(entry.useragents) :
        entry.useragents[i] = "*" \/ entry.useragents[i] = useragent

\* Entry.allowance(path): the first rule line the path starts with decides
Allowance(entry, path) ==
    LET hit == {i \in 1..Len(entry.rulelines) : StartsWith(path, entry.rulelines[i].path)}
    IN  IF hit = {} THEN TRUE ELSE entry.rulelines[Min(hit)].allowance

\* RobotFileParser.can_fetch(useragent, url)
ParserCanFetch(p, useragent, u) ==
    IF p.disallow_all THEN FALSE
    ELSE IF p.allow_all THEN TRUE
    ELSE IF ~p.last_checked THEN FALSE
    ELSE LET hit == {i \in 1..Len(p.entries) : AppliesTo(p.entries[i], useragent)}
         IN  IF hit # {} THEN Allowance(p.entries[Min(hit)], Path(u))
             ELSE IF p.default_entry # <<>> THEN Allowance(p.default_entry[1], Path(u))
             ELSE TRUE

\* effective_user_agent before _load_and_parse_robots_txt sets it
None == "None"

\* the User-agent values of the raw robots.txt text, in source order
PotentialAgents(lines) ==
    LET RECURSIVE Collect(_)
        Collect(ls) ==
            IF ls = <<>> THEN <<>>
            ELSE (IF Head(ls).k = "ua" THEN <<Head(ls).v>> ELSE <<>>) \o Collect(Tail(ls))
    IN  Collect(lines)

\* the last declared agent taken where the first is meant
ChooseAgentLast(potential_agents) ==
    IF \E i \in 1..Len(potential_agents) : potential_agents[i] = "*" THEN "*"
    ELSE IF potential_agents # <<>> THEN potential_agents[Len(potential_agents)]
    ELSE "*"

\* the choice of chosen_agent among potential_agents
ChooseAgent(potential_agents) ==
    IF \E i \in 1..Len(potential_agents) : potential_agents[i] = "*" THEN "*"
    ELSE IF potential_agents # <<>> THEN potential_agents[1]
    ELSE "*"

----------------------------------------------------------------------------
(* State after main has truncated the output file and submitted the tasks *)

Tasks == 1..Len(domains)

Procs == 1..max_workers

\* task t crawls domains[t]
Domain(t) == domains[t]

\* The output file: valid JSON holding data, or (ok = FALSE) no valid JSON:
\* truncated by an open(..., "w") whose json.dump has not reached the disk yet,
\* or garbled.  dirty holds the writers (a task, or 0 for main) that have the
\* file open while another writer's bytes have reached it: such a writer
\* writes from offset 0 over bytes it did not truncate, and what is left
\* behind its own text may garble the file.
Stored(data) == [ok |-> TRUE, data |-> data, dirty |-> {}]

Pending == [state |-> "pending", result |-> <<>>]

NoFetch == [attempt |-> 0, trace |-> <<>>, result |-> <<>>]

StarEntry == <<[k |-> "ua", v |-> "*"], [k |-> "dis", v |-> <<"private">>]>>
BotEntry  == <<[k |-> "ua", v |-> "Googlebot"], [k |-> "dis", v |-> <<"private">>]>>

Net(pages, robots) == [pages |-> pages, robots |-> robots]

\* The runs of one domain: over every link graph with a few robots.txt
\* files, every answer to page requests; over one small site with every
\* robots.txt of up to MaxRobotsLen lines, every outcome of its loads; each
\* domain string alone over a one-link site on a calm network.
Worlds ==
    {[domains |-> <<"a.com">>, shape |-> sh, robots_txt |-> r, net |-> Net("any", "calm")] :
        sh \in CrawlShapes, r \in {<<>>, StarEntry, BotEntry}}
    \cup {[domains |-> <<"a.com">>, shape |-> "tiny", robots_txt |-> r,
           net |-> Net("calm", "any")] :
        r \in SeqsUpTo(RobotsLines, MaxRobotsLen)}
    \cup {[domains |-> <<d>>, shape |-> "leaf", robots_txt |-> <<>>,
           net |-> Net("calm", "calm")] :
        d \in DomainStrings}

\* The runs of several domains at once, over a one-link site on a calm network
PoolWorlds ==
    {[domains |-> ds, shape |-> "leaf", robots_txt |-> <<>>,
      net |-> Net("calm", "calm")] :
        ds \in {q \in SeqsUpTo(PoolStrings, MaxDomains) :
                    /\ Len(q) >= 2
                    \* tasks differ only in their domain string and the two
                    \* sites are alike: the same string throughout, or with one
                    \* other string last, stands for the other lists
                    /\ \A i \in 1..(Len(q) - 1) : q[i] = "a.com"}}

\* main has written {} to the output file and submitted one task per domain;
\* no task has started
Submitted ==
    /\ phase = [t \in Tasks |-> "queued"]
    /\ proc = [t \in Tasks |-> 0]
    /\ visited_urls = [t \in Tasks |-> {}]
    /\ product_urls = [t \in Tasks |-> {}]
    /\ cache = [t \in Tasks |-> EmptyMap]
    /\ robot_parser = [t \in Tasks |-> NewParser]
    /\ effective_user_agent = [t \in Tasks |-> None]
    /\ loads = [t \in Tasks |-> <<>>]
    /\ stack = [t \in Tasks |-> <<>>]
    /\ fetch = [t \in Tasks |-> NoFetch]
    /\ fetchLog = [t \in Tasks |-> <<>>]
    /\ existing_data = [t \in Tasks |-> EmptyMap]
    /\ lock = [p \in Procs |-> 0]
    /\ file = Stored(EmptyMap)
    /\ future = [t \in Tasks |-> Pending]
    /\ results = EmptyMap
    /\ orch = [pc |-> "wait", cur |-> 0, data |-> EmptyMap, yielded |-> {}]

Init ==
    /\ \E w \in Worlds :
        /\ domains = w.domains
        /\ shape = w.shape
        /\ robots_txt = w.robots_txt
        /\ net = w.net
    /\ Submitted

----------------------------------------------------------------------------
(* The worker pool *)

Running(t) == phase[t] \notin {"queued", "returned", "raised"}

IdleProcs == {p \in Procs : \A t \in Tasks : Running(t) => proc[t] # p}

\* A pool process takes the next submitted task and constructs its
\* DomainCrawler.  Idle processes hold no state, so the lowest one stands for
\* any of them.
StartTask(t) ==
    /\ phase[t] = "queued"
    /\ \A s \in Tasks : s < t => phase[s] # "queued"
    /\ IdleProcs # {}
    /\ proc' = [proc EXCEPT ![t] = Min(IdleProcs)]
    /\ phase' = [phase EXCEPT ![t] = "init"]
    /\ UNCHANGED <<worldVars, engineVars, robotVars, existing_data, lock, file, mainVars>>

----------------------------------------------------------------------------
(* Robots policy *)

\* How robot_parser.read() (urllib) may end
ReadOutcomes ==
    IF net.robots = "calm" THEN {"ok"}
    ELSE {"ok", "network error", "decode error", "http 403", "http 404", "http 500"}

\* How the second load (aiohttp) of robots.txt may end
GetOutcomes ==
    IF net.robots = "calm" THEN {"200"}
    ELSE {"200", "non-200", "error"}

\* RobotFileParser.read(): <<>> when it raises, else <<the parser after it>>
Read(p, outcome) ==
    CASE outcome = "ok"       -> <<Parse(p, robots_txt)>>
      [] outcome = "http 403" -> <<[p EXCEPT !.disallow_all = TRUE]>>
      [] outcome = "http 404" -> <<[p EXCEPT !.allow_all = TRUE]>>
      [] outcome = "http 500" -> <<p>>
      [] OTHER                -> <<>>

\* raw_robots after the second load
RawRobots(outcome) == IF outcome = "200" THEN robots_txt ELSE <<>>

LoadRobots(t) ==
    /\ phase[t] = "init"
    /\ \E o1 \in ReadOutcomes, o2 \in GetOutcomes :
        LET read == Read(robot_parser[t], o1)
        IN  IF read = <<>>
            THEN \* the except clause returns before the second load
                 /\ loads' = [loads EXCEPT ![t] = <<o1>>]
                 /\ UNCHANGED <<robot_parser, effective_user_agent>>
            ELSE /\ loads' = [loads EXCEPT ![t] = <<o1, o2>>]
                 /\ robot_parser' = [robot_parser EXCEPT ![t] = read[1]]
                 /\ effective_user_agent' =
                        [effective_user_agent EXCEPT
                            ![t] = ChooseAgent(PotentialAgents(RawRobots(o2)))]
    /\ phase' = [phase EXCEPT ![t] = "robots"]
    /\ UNCHANGED <<worldVars, proc, engineVars, existing_data, lock, file, mainVars>>

\* DomainCrawler._can_fetch of an engine with this parser and agent
CanFetch(p, agent, u) ==
    IF agent = None \/ agent = "" \/ p.default_entry = <<>> THEN TRUE
    ELSE ParserCanFetch(p, agent, u)

_can_fetch(t, u) == CanFetch(robot_parser[t], effective_user_agent[t], u)

----------------------------------------------------------------------------
(* The domain crawl engine: crawl, _crawl_url and _fetch *)

Frame(u, depth, pc) == [url |-> u, depth |-> depth, pc |-> pc, idx |-> 0]

Top(t) == stack[t][Len(stack[t])]

Pop(st) == SubSeq(st, 1, Len(st) - 1)

SetTop(st, f) == [st EXCEPT ![Len(st)] = f]

\* the load of robots.txt not awaited: the traversal may begin before it
BeginCrawlEarly(t) ==
    /\ phase[t] \in {"init", "robots"}
    /\ phase' = [phase EXCEPT ![t] = "crawling"]
    /\ stack' = [stack EXCEPT ![t] = <<Frame(BaseUrl(Domain(t)), 0, "call")>>]
    /\ UNCHANGED <<worldVars, proc, visited_urls, product_urls, cache, fetch, fetchLog,
                   robotVars, existing_data, lock, file, mainVars>>

\* crawl(): the session is opened and _crawl_url(base_url, depth=0) is called
BeginCrawl(t) ==
    /\ phase[t] = "robots"
    /\ phase' = [phase EXCEPT ![t] = "crawling"]
    /\ stack' = [stack EXCEPT ![t] = <<Frame(BaseUrl(Domain(t)), 0, "call")>>]
    /\ UNCHANGED <<worldVars, proc, visited_urls, product_urls, cache, fetch, fetchLog,
                   robotVars, existing_data, lock, file, mainVars>>

\* the depth test off by one: one level too many is let through
DepthExceededLate(depth) == depth > MAX_DEPTH + 1

\* depth > MAX_DEPTH
DepthExceeded(depth) == depth > MAX_DEPTH

\* the visited mark left out
AddVisitedDropped(visited, u) == visited

\* self.visited_urls.add(url)
AddVisited(visited, u) == visited \cup {u}

\* The head of _crawl_url, up to the first suspension of _fetch: the three
\* checks that end the branch, then the visited mark and the cache lookup.
CrawlUrl(t) ==
    /\ phase[t] = "crawling"
    /\ stack[t] # <<>>
    /\ Top(t).pc = "call"
    /\ LET f == Top(t)
       IN  IF \/ f.url \in visited_urls[t]
              \/ DepthExceeded(f.depth)
              \/ ~_can_fetch(t, f.url)
           THEN /\ stack' = [stack EXCEPT ![t] = Pop(@)]
                /\ UNCHANGED <<visited_urls, fetch, fetchLog>>
           ELSE /\ visited_urls' = [visited_urls EXCEPT ![t] = AddVisited(@, f.url)]
                /\ fetchLog' = [fetchLog EXCEPT ![t] = Append(@, <<f.url, f.depth>>)]
                /\ IF f.url \in DOMAIN cache[t]
                   THEN /\ fetch' = [fetch EXCEPT ![t] =
                                [NoFetch EXCEPT !.result = <<cache[t][f.url]>>,
                                                !.trace = <<[e |-> "hit", s |-> 0, h |-> "-"]>>]]
                        /\ stack' = [stack EXCEPT ![t] = SetTop(@, [f EXCEPT !.pc = "fetched"])]
                   ELSE /\ fetch' = [fetch EXCEPT ![t] = NoFetch]
                        /\ stack' = [stack EXCEPT ![t] = SetTop(@, [f EXCEPT !.pc = "delay"])]
    /\ UNCHANGED <<worldVars, phase, proc, product_urls, cache, robotVars, existing_data,
                   lock, file, mainVars>>

\* random.uniform(1, 2), in whole seconds
PoliteDelays == IF net.pages = "any" THEN {1, 2} ELSE {1}

\* the politeness sleep left out: _fetch goes straight to the attempt loop
FetchDelayOmitted(t) ==
    /\ phase[t] = "crawling"
    /\ stack[t] # <<>>
    /\ Top(t).pc = "delay"
    /\ stack' = [stack EXCEPT ![t] = SetTop(@, [Top(t) EXCEPT !.pc = "attempt"])]
    /\ UNCHANGED <<worldVars, phase, proc, visited_urls, product_urls, cache, fetch, fetchLog,
                   robotVars, existing_data, lock, file, mainVars>>

\* _fetch: the politeness sleep before the attempt loop
FetchDelay(t) ==
    /\ phase[t] = "crawling"
    /\ stack[t] # <<>>
    /\ Top(t).pc = "delay"
    /\ \E d \in PoliteDelays :
        fetch' = [fetch EXCEPT ![t].trace = Append(@, [e |-> "polite", s |-> d, h |-> "-"])]
    /\ stack' = [stack EXCEPT ![t] = SetTop(@, [Top(t) EXCEPT !.pc = "attempt"])]
    /\ UNCHANGED <<worldVars, phase, proc, visited_urls, product_urls, cache, fetchLog,
                   robotVars, existing_data, lock, file, mainVars>>

\* response.headers.get("Retry-After", "5")
RetryAfter(r) == IF r.retry = "absent" THEN "5" ELSE r.retry

\* the exception leaves _fetch, _crawl_url, crawl and _crawl_domain_sync: the
\* future gets the exception and the process is idle again
Raised == [state |-> "exception", result |-> <<>>]

\* _fetch: one turn of the attempt loop, answered by response r
FetchAttempt(t) ==
    /\ phase[t] = "crawling"
    /\ stack[t] # <<>>
    /\ Top(t).pc = "attempt"
    /\ fetch[t].attempt < max_retries
    /\ \E r \in NetResponses :
        LET f       == Top(t)
            attempt == fetch[t].attempt + 1
            got     == Append(fetch[t].trace, [e |-> "get", s |-> r.status, h |-> r.retry])
            again(tr) ==
                \* back to the loop test: attempt < max_retries, else return ""
                /\ fetch' = [fetch EXCEPT ![t] =
                                [attempt |-> attempt, trace |-> tr, result |-> <<>>]]
                /\ stack' = [stack EXCEPT ![t] = SetTop(@,
                                [f EXCEPT !.pc = IF attempt < max_retries
                                                 THEN "attempt" ELSE "fetched"])]
                /\ UNCHANGED <<cache, phase, future>>
        IN  CASE r.status = 200 ->
                    /\ cache' = [cache EXCEPT ![t] = MapPut(@, f.url, f.url)]
                    /\ fetch' = [fetch EXCEPT ![t] =
                                    [attempt |-> attempt, trace |-> got, result |-> <<f.url>>]]
                    /\ stack' = [stack EXCEPT ![t] = SetTop(@, [f EXCEPT !.pc = "fetched"])]
                    /\ UNCHANGED <<phase, future>>
              [] r.status = 429 ->
                    LET n == ParseInt(RetryAfter(r))
                    IN  IF n = <<>>
                        THEN \* int(retry_after) raises ValueError, which nothing catches
                             /\ phase' = [phase EXCEPT ![t] = "raised"]
                             /\ future' = [future EXCEPT ![t] = Raised]
                             /\ fetch' = [fetch EXCEPT ![t] =
                                    [attempt |-> attempt, trace |-> got, result |-> <<>>]]
                             /\ stack' = [stack EXCEPT ![t] = <<>>]
                             /\ UNCHANGED cache
                        ELSE again(Append(got, [e |-> "backoff", s |-> n[1], h |-> "-"]))
              [] r.status = NetworkError ->
                    again(Append(got, [e |-> "errsleep", s |-> ErrorSleep, h |-> "-"]))
              [] OTHER ->
                    \* any other status: break, return ""
                    /\ fetch' = [fetch EXCEPT ![t] =
                                    [attempt |-> attempt, trace |-> got, result |-> <<>>]]
                    /\ stack' = [stack EXCEPT ![t] = SetTop(@, [f EXCEPT !.pc = "fetched"])]
                    /\ UNCHANGED <<cache, phase, future>>
    /\ UNCHANGED <<worldVars, proc, visited_urls, product_urls, fetchLog, robotVars,
                   existing_data, lock, file, results, orch>>

\* a fetch without content tried again where the branch is to end
AfterFetchRetrying(t) ==
    /\ phase[t] = "crawling"
    /\ stack[t] # <<>>
    /\ Top(t).pc = "fetched"
    /\ IF fetch[t].result = <<>>
       THEN stack' = [stack EXCEPT ![t] = SetTop(@, [Top(t) EXCEPT !.pc = "delay"])]
       ELSE stack' = [stack EXCEPT ![t] = SetTop(@, [Top(t) EXCEPT !.pc = "links", !.idx = 1])]
    /\ fetch' = [fetch EXCEPT ![t] = NoFetch]
    /\ UNCHANGED <<worldVars, phase, proc, visited_urls, product_urls, cache, fetchLog,
                   robotVars, existing_data, lock, file, mainVars>>

\* _crawl_url after _fetch has returned: no content ends the branch, else the
\* page is parsed and its links are scanned
AfterFetch(t) ==
    /\ phase[t] = "crawling"
    /\ stack[t] # <<>>
    /\ Top(t).pc = "fetched"
    /\ IF fetch[t].result = <<>>
       THEN stack' = [stack EXCEPT ![t] = Pop(@)]
       ELSE stack' = [stack EXCEPT ![t] = SetTop(@, [Top(t) EXCEPT !.pc = "links", !.idx = 1])]
    /\ fetch' = [fetch EXCEPT ![t] = NoFetch]
    /\ UNCHANGED <<worldVars, phase, proc, visited_urls, product_urls, cache, fetchLog,
                   robotVars, existing_data, lock, file, mainVars>>

\* the links of a page taken last first
PageLinksReversed(t, u) ==
    LET links == Links(shape, Netloc(Domain(t)), u)
    IN  [i \in 1..Len(links) |-> links[Len(links) + 1 - i]]

\* soup.find_all('a', href=True) of the body fetched for url, through urljoin
PageLinks(t, u) == Links(shape, Netloc(Domain(t)), u)

\* One turn of the loop over the links of a page: an external link is
\* skipped, a product link is recorded, and _crawl_url is called on the link.
\* The call returns to this loop; after the last link _crawl_url returns.
ScanLink(t) ==
    /\ phase[t] = "crawling"
    /\ stack[t] # <<>>
    /\ Top(t).pc = "links"
    /\ LET f     == Top(t)
           links == PageLinks(t, f.url)
       IN  IF f.idx > Len(links)
           THEN /\ stack' = [stack EXCEPT ![t] = Pop(@)]
                /\ UNCHANGED product_urls
           ELSE LET link == links[f.idx]
                    next == [f EXCEPT !.idx = f.idx + 1]
                IN  IF ~SameSite(Netloc(Domain(t)), link)
                    THEN /\ stack' = [stack EXCEPT ![t] = SetTop(@, next)]
                         /\ UNCHANGED product_urls
                    ELSE /\ product_urls' =
                                [product_urls EXCEPT
                                    ![t] = IF _is_product_url(link) THEN @ \cup {link} ELSE @]
                         /\ stack' = [stack EXCEPT ![t] =
                                Append(SetTop(@, next), Frame(link, f.depth + 1, "call"))]
    /\ UNCHANGED <<worldVars, phase, proc, visited_urls, cache, fetch, fetchLog, robotVars,
                   existing_data, lock, file, mainVars>>

----------------------------------------------------------------------------
(* The output file *)

Main == 0

\* the writers that have opened the file and not yet written
OpenWriters ==
    {t \in Tasks : phase[t] = "opened"} \cup (IF orch.pc = "opened" THEN {Main} ELSE {})

\* the file after writer x has opened it with mode "w"
Truncated(x) == [ok |-> FALSE, data |-> EmptyMap, dirty |-> file.dirty \ {x}]

\* the file after writer x has dumped data and closed it
Written(x, data, garbled) ==
    [ok |-> ~garbled, data |-> IF garbled THEN EmptyMap ELSE data,
     dirty |-> (file.dirty \cup OpenWriters) \ {x}]

\* whether the write of x may leave the file garbled
Garblings(x) == IF x \in file.dirty THEN {FALSE, TRUE} ELSE {FALSE}

----------------------------------------------------------------------------
(* The worker's write of its result: DomainCrawler._write_final_results *)

\* the result written from inside the traversal, before _crawl_url(base_url)
\* has returned
AcquireLockEarly(t) ==
    /\ phase[t] = "crawling"
    /\ lock[proc[t]] = 0
    /\ lock' = [lock EXCEPT ![proc[t]] = t]
    /\ phase' = [phase EXCEPT ![t] = "locked"]
    /\ UNCHANGED <<worldVars, proc, engineVars, robotVars, existing_data, file, mainVars>>

\* with self._file_write_lock: the lock of the worker's own process.  crawl()
\* gets here when _crawl_url(base_url) has returned.
AcquireLock(t) ==
    /\ phase[t] = "crawling"
    /\ stack[t] = <<>>
    /\ lock[proc[t]] = 0
    /\ lock' = [lock EXCEPT ![proc[t]] = t]
    /\ phase' = [phase EXCEPT ![t] = "locked"]
    /\ UNCHANGED <<worldVars, proc, engineVars, robotVars, existing_data, file, mainVars>>

\* get_product_urls(): sorted(self.product_urls)
get_product_urls(t) == Sorted(product_urls[t])

\* _crawl_domain_sync returns (domain, product_urls): the future is finished
Finished(t) == [state |-> "finished", result |-> <<Domain(t), get_product_urls(t)>>]

\* existing_data after the union of the stored list of domain d with urls
Merged(data, d, urls) ==
    LET old == IF d \in DOMAIN data THEN SeqToSet(data[d]) ELSE {}
    IN  MapPut(data, d, Sorted(old \cup urls))

\* json.load of the output file and the merge.  A file that is not valid
\* JSON makes json.load raise: the except clause logs it, nothing is written,
\* the lock is released and the task returns its result.
ReadFile(t) ==
    /\ phase[t] = "locked"
    /\ IF file.ok
       THEN /\ existing_data' = [existing_data EXCEPT
                    ![t] = Merged(file.data, Domain(t), product_urls[t])]
            /\ phase' = [phase EXCEPT ![t] = "merged"]
            /\ UNCHANGED <<lock, future>>
       ELSE /\ lock' = [lock EXCEPT ![proc[t]] = 0]
            /\ phase' = [phase EXCEPT ![t] = "returned"]
            /\ future' = [future EXCEPT ![t] = Finished(t)]
            /\ UNCHANGED existing_data
    /\ UNCHANGED <<worldVars, proc, engineVars, robotVars, file, results, orch>>

\* open(OUTPUT_JSON, "w") truncates the file
OpenFile(t) ==
    /\ phase[t] = "merged"
    /\ file' = Truncated(t)
    /\ phase' = [phase EXCEPT ![t] = "opened"]
    /\ UNCHANGED <<worldVars, proc, engineVars, robotVars, existing_data, lock, mainVars>>

\* json.dump and close; the lock is released, crawl() returns and
\* _crawl_domain_sync returns the result
DumpFile(t) ==
    /\ phase[t] = "opened"
    /\ \E garbled \in Garblings(t) : file' = Written(t, existing_data[t], garbled)
    /\ lock' = [lock EXCEPT ![proc[t]] = 0]
    /\ phase' = [phase EXCEPT ![t] = "returned"]
    /\ future' = [future EXCEPT ![t] = Finished(t)]
    /\ UNCHANGED <<worldVars, proc, engineVars, robotVars, existing_data, results, orch>>

----------------------------------------------------------------------------
(* The orchestrator: the as_completed loop of main and write_partial_results *)

\* read_existing_json: the file's object, or {} when it is not valid JSON
read_existing_json == IF file.ok THEN file.data ELSE EmptyMap

\* existing_data[domain] = sorted(product_urls)
Replaced(data, d, urls) == MapPut(data, d, Sorted(SeqToSet(urls)))

\* as_completed yields a finished future.  One that holds an exception is
\* logged; otherwise the result goes into manager.results and
\* write_partial_results reads the file and sets the domain's entry.
TakeResult(t) ==
    /\ orch.pc = "wait"
    /\ t \notin orch.yielded
    /\ future[t].state # "pending"
    /\ IF future[t].state = "exception"
       THEN /\ orch' = [orch EXCEPT !.yielded = @ \cup {t}]
            /\ UNCHANGED results
       ELSE LET d    == future[t].result[1]
                urls == future[t].result[2]
            IN  /\ results' = MapPut(results, d, urls)
                /\ orch' = [pc |-> "read", cur |-> t,
                            data |-> Replaced(read_existing_json, d, urls),
                            yielded |-> orch.yielded \cup {t}]
    /\ UNCHANGED <<worldVars, phase, proc, engineVars, robotVars, existing_data, lock,
                   file, future>>

\* write_partial_results: open(OUTPUT_FILE, "w") truncates the file
OrchOpen ==
    /\ orch.pc = "read"
    /\ file' = Truncated(Main)
    /\ orch' = [orch EXCEPT !.pc = "opened"]
    /\ UNCHANGED <<worldVars, phase, proc, engineVars, robotVars, existing_data, lock,
                   future, results>>

\* write_partial_results: json.dump and close
OrchDump ==
    /\ orch.pc = "opened"
    /\ \E garbled \in Garblings(Main) : file' = Written(Main, orch.data, garbled)
    /\ orch' = [orch EXCEPT !.pc = "wait", !.cur = 0, !.data = EmptyMap]
    /\ UNCHANGED <<worldVars, phase, proc, engineVars, robotVars, existing_data, lock,
                   future, results>>

----------------------------------------------------------------------------

Next ==
    \/ \E t \in Tasks : StartTask(t)
    \/ \E t \in Tasks : LoadRobots(t)
    \/ \E t \in Tasks : BeginCrawl(t)
    \/ \E t \in Tasks : CrawlUrl(t)
    \/ \E t \in Tasks : FetchDelay(t)
    \/ \E t \in Tasks : FetchAttempt(t)
    \/ \E t \in Tasks : AfterFetch(t)
    \/ \E t \in Tasks : ScanLink(t)
    \/ \E t \in Tasks : AcquireLock(t)
    \/ \E t \in Tasks : ReadFile(t)
    \/ \E t \in Tasks : OpenFile(t)
    \/ \E t \in Tasks : DumpFile(t)
    \/ \E t \in Tasks : TakeResult(t)
    \/ OrchOpen
    \/ OrchDump

Spec == Init /\ [][Next]_vars

InitPool ==
    /\ \E w \in PoolWorlds :
        /\ domains = w.domains
        /\ shape = w.shape
        /\ robots_txt = w.robots_txt
        /\ net = w.net
    /\ Submitted

SpecPool == InitPool /\ [][Next]_vars

\* A run of three domains with distinct raw strings, crawled at once
InitThree ==
    /\ domains = <<"a.com", "b.com", "http://a.com">>
    /\ shape = "leaf"
    /\ robots_txt = <<>>
    /\ net = Net("calm", "calm")
    /\ Submitted

SpecThree == InitThree /\ [][Next]_vars

\* The runs of one domain over every link graph, every answer to its page
\* requests
InitCrawl ==
    /\ domains = <<"a.com">>
    /\ shape \in CrawlShapes
    /\ robots_txt = <<>>
    /\ net = Net("any", "calm")
    /\ Submitted

\* the steps of the worker process that runs task t
WorkerStep(t) ==
    /\ t \in Tasks
    /\ \/ StartTask(t) \/ LoadRobots(t) \/ BeginCrawl(t) \/ CrawlUrl(t) \/ FetchDelay(t)
       \/ FetchAttempt(t) \/ AfterFetch(t) \/ ScanLink(t) \/ AcquireLock(t)
       \/ ReadFile(t) \/ OpenFile(t) \/ DumpFile(t)

\* Each worker process runs the event loop of its one task to the end
\* (loop.run_until_complete): a task that can take a step takes one.
SpecCrawl ==
    InitCrawl /\ [][Next]_vars /\ \A t \in 1..MaxDomains : WF_vars(WorkerStep(t))

----------------------------------------------------------------------------
(* Properties *)

A == Netloc("a.com")

Done(t) == phase[t] = "returned"

\* the traversal of task t has returned to crawl()
Traversed(t) == phase[t] = "crawling" /\ stack[t] = <<>>

\* task t is between its read of the output file and the end of its write
WorkerInSequence(t) == phase[t] \in {"merged", "opened"}

\* main is between its read of the output file and the end of its write
OrchInSequence == orch.pc \in {"read", "opened"}

\* C1: at most one read-merge-write sequence on the output file is under way
\* at any time, counting those of the workers and that of the orchestrator.
C1_OneSequenceAtATime ==
    Cardinality({t \in Tasks : WorkerInSequence(t)}) + (IF OrchInSequence THEN 1 ELSE 0) <= 1

\* every task has returned a result and main has merged them all
AllMerged ==
    /\ \A t \in Tasks : Done(t)
    /\ orch.yielded = Tasks
    /\ orch.pc = "wait"

\* C2: when distinct domains were crawled at once and everything has been
\* merged, the output file maps every domain to that domain's own sorted
\* product URLs.
C2_EveryDomainKept ==
    (/\ Len(domains) >= 2
     /\ \A s, t \in Tasks : s # t => Domain(s) # Domain(t)
     /\ AllMerged)
    => /\ file.ok
       /\ DOMAIN file.data = {Domain(t) : t \in Tasks}
       /\ \A t \in Tasks : file.data[Domain(t)] = Sorted(product_urls[t])

\* C3: an engine calls _fetch at most once for a URL, and only for a URL it
\* has marked visited.
C3_FetchOncePerUrl ==
    \A t \in Tasks :
        /\ \A i, j \in DOMAIN fetchLog[t] :
                i # j => fetchLog[t][i][1] # fetchLog[t][j][1]
        /\ \A i \in DOMAIN fetchLog[t] : fetchLog[t][i][1] \in visited_urls[t]

\* C3 at work: the fetch of page MAX_DEPTH failed, the root linked to the
\* page again, and the crawl ended without a second fetch of it.
C3_Witness ==
    /\ shape = "short"
    /\ \E t \in Tasks :
        /\ Traversed(t)
        /\ Pg(A, MAX_DEPTH) \in visited_urls[t] \ DOMAIN cache[t]
        /\ {Pg(A, 0), Pg(A, MAX_DEPTH - 1)} \subseteq DOMAIN cache[t]

\* no _fetch call at a depth beyond MAX_DEPTH, and a call of _crawl_url beyond
\* MAX_DEPTH gets no further than its checks
DepthBounded ==
    \A t \in Tasks :
        /\ \A i \in DOMAIN fetchLog[t] : fetchLog[t][i][2] <= MAX_DEPTH
        /\ \A k \in DOMAIN stack[t] :
                stack[t][k].depth > MAX_DEPTH => stack[t][k].pc = "call"

\* a call of _crawl_url at depth MAX_DEPTH or less on a URL that is new and
\* allowed goes on to fetch it
FetchedWithinDepth ==
    \A t \in Tasks :
        (/\ phase[t] = "crawling"
         /\ stack[t] # <<>>
         /\ stack'[t] # stack[t]
         /\ Top(t).pc = "call"
         /\ Top(t).depth <= MAX_DEPTH
         /\ Top(t).url \notin visited_urls[t]
         /\ _can_fetch(t, Top(t).url))
        => fetchLog'[t] = Append(fetchLog[t], <<Top(t).url, Top(t).depth>>)

\* C4: no page is fetched at a depth beyond MAX_DEPTH; a page at depth
\* MAX_DEPTH or less is fetched, and no link found on a page at depth
\* MAX_DEPTH is fetched on account of that page.
C4_DepthLimit == []DepthBounded /\ [][FetchedWithinDepth]_vars

\* C4 at work: page MAX_DEPTH was fetched at depth MAX_DEPTH, its product link
\* was recorded, and neither that link nor the next page was fetched.
C4_Witness ==
    /\ shape = "shop"
    /\ \E t \in Tasks :
        /\ Traversed(t)
        /\ \E i \in DOMAIN fetchLog[t] : fetchLog[t][i] = <<Pg(A, MAX_DEPTH), MAX_DEPTH>>
        /\ Url(A, "prod", MAX_DEPTH) \in product_urls[t] \ visited_urls[t]
        /\ Pg(A, MAX_DEPTH + 1) \notin visited_urls[t]

\* the GETs of a _fetch call, in order
Gets(trace) == SelectSeq(trace, LAMBDA ev : ev.e = "get")

\* the back-off sleeps of a _fetch call after a 429, in order
Backoffs(trace) == SelectSeq(trace, LAMBDA ev : ev.e = "backoff")

\* the _fetch call of task t has returned to _crawl_url
FetchReturned(t) ==
    /\ phase[t] = "crawling"
    /\ stack[t] # <<>>
    /\ Top(t).pc = "fetched"

Retryable(status) == status = 429 \/ status = NetworkError

\* what a finished _fetch call must have returned, given its GETs
FetchResultRight(t) ==
    LET gets == Gets(fetch[t].trace)
        n    == Len(gets)
    IN  /\ n >= 1
        /\ \A i \in 1..(n - 1) : Retryable(gets[i].s)
        /\ IF gets[n].s = 200
           THEN /\ fetch[t].result = <<Top(t).url>>
                /\ Top(t).url \in DOMAIN cache[t]
           ELSE /\ fetch[t].result = <<>>
                /\ Retryable(gets[n].s) => n = max_retries

\* C5: a _fetch call issues at most 3 GETs and returns: the body at the first
\* 200 that follows only 429s and network errors, empty at once at any other
\* status, empty after the third attempt otherwise; 429, 429, 200 with
\* Retry-After 2 has slept exactly twice 2 seconds.
C5_FetchReturnsWithinThreeGets ==
    \A t \in Tasks :
        /\ Len(Gets(fetch[t].trace)) <= max_retries
        /\ phase[t] # "raised"
        /\ FetchReturned(t) =>
            /\ FetchResultRight(t)
            /\ LET gets == Gets(fetch[t].trace)
               IN  (/\ Len(gets) = 3
                    /\ gets[1].s = 429 /\ gets[1].h = "2"
                    /\ gets[2].s = 429 /\ gets[2].h = "2"
                    /\ gets[3].s = 200)
                   => /\ fetch[t].result # <<>>
                      /\ Len(Backoffs(fetch[t].trace)) = 2
                      /\ \A i \in 1..2 : Backoffs(fetch[t].trace)[i].s = 2

\* the header of a 429 is missing or is no number
NoUsableRetryAfter(h) == h = "absent" \/ ParseInt(h) = <<>>

\* C6: a 429 whose Retry-After is absent or not a number is followed by a
\* sleep of 5 seconds, after which the call goes on (it does not raise).
C6_RetryAfterDefaultsToFive ==
    \A t \in Tasks :
        \A i \in DOMAIN fetch[t].trace :
            LET ev == fetch[t].trace[i]
            IN  (ev.e = "get" /\ ev.s = 429 /\ NoUsableRetryAfter(ev.h))
                => /\ i < Len(fetch[t].trace)
                   /\ fetch[t].trace[i + 1].e = "backoff"
                   /\ fetch[t].trace[i + 1].s = 5

\* C7: whatever the pages answer, crawl() does not raise: no task ends with an
\* exception, and a task that has ended has returned its sorted product URLs.
C7_CrawlNeverRaises ==
    \A t \in Tasks :
        /\ future[t].state # "exception"
        /\ phase[t] \in {"returned", "raised"} =>
                future[t] = [state |-> "finished",
                             result |-> <<Domain(t), Sorted(product_urls[t])>>]

\* the User-agent tokens robots.txt declares, in source order
Declared ==
    LET uas == SelectSeq(robots_txt, LAMBDA line : line.k = "ua")
    IN  [i \in 1..Len(uas) |-> uas[i].v]

\* both loads of robots.txt succeeded
RobotsFetched(t) == loads[t] = <<"ok", "200">>

\* C8: after robots.txt has been fetched, the effective user agent is "*" if
\* "*" is declared, else the first declared token, else "*".
C8_EffectiveAgentRule ==
    \A t \in Tasks :
        RobotsFetched(t) =>
            effective_user_agent[t] =
                (IF "*" \in SeqToSet(Declared) THEN "*"
                 ELSE IF Len(Declared) > 0 THEN Head(Declared)
                 ELSE "*")

\* C8 at work: two agents other than "*" are declared and the first is chosen
C8_Witness ==
    /\ Declared = <<"Googlebot", "Bingbot">>
    /\ \E t \in Tasks : RobotsFetched(t) /\ effective_user_agent[t] = "Googlebot"

\* the URLs a crawl of the site at host h may meet
SiteUrls(h) ==
    {Url(g, k, n) : g \in Hosts(h), k \in {"page", "prod", "priv"}, n \in 0..NumPages}

\* robots loading is over for task t
RobotsDone(t) == phase[t] \notin {"queued", "init"}

\* C9: when robots.txt is empty, missing or not loadable on either load, the
\* effective user agent after loading is "*" and can_fetch is true of every
\* URL.
C9_NoRobotsNoRestriction ==
    \A t \in Tasks :
        (RobotsDone(t) /\ (robots_txt = <<>> \/ ~RobotsFetched(t)))
        => /\ effective_user_agent[t] = "*"
           /\ \A u \in SiteUrls(Netloc(Domain(t))) : _can_fetch(t, u)

\* the parser of task t holds rules and an agent to apply them for
RulesLoaded(t) ==
    /\ robot_parser[t].last_checked
    /\ robot_parser[t].entries # <<>> \/ robot_parser[t].default_entry # <<>>
    /\ effective_user_agent[t] # None

\* C10: once rules are loaded, no URL that the rule matcher disallows for the
\* effective user agent is marked visited or fetched.
C10_DisallowedNeverVisited ==
    \A t \in Tasks :
        RulesLoaded(t) =>
            /\ \A u \in visited_urls[t] :
                    ParserCanFetch(robot_parser[t], effective_user_agent[t], u)
            /\ \A i \in DOMAIN fetchLog[t] :
                    ParserCanFetch(robot_parser[t], effective_user_agent[t], fetchLog[t][i][1])

\* event i of a _fetch trace is a politeness sleep of 1 to 2 seconds
IsPolite(trace, i) ==
    /\ i \in DOMAIN trace
    /\ trace[i].e = "polite"
    /\ trace[i].s \in 1..2

\* the places of the GETs in a _fetch trace
GetPlaces(trace) == {i \in DOMAIN trace : trace[i].e = "get"}

\* C11: every GET of a _fetch call, the first and each retry, comes right
\* after a politeness sleep of its own.
C11_PoliteDelayBeforeEveryGet ==
    \A t \in Tasks :
        \A i \in GetPlaces(fetch[t].trace) : IsPolite(fetch[t].trace, i - 1)

\* event i of a _fetch trace is the sleep that follows a GET answered by a
\* 429 (the seconds its Retry-After names, 5 without the header) or by a
\* network error (2 seconds)
IsRetrySleep(trace, i) ==
    /\ i - 1 \in DOMAIN trace
    /\ i \in DOMAIN trace
    /\ trace[i - 1].e = "get"
    /\ \/ /\ trace[i - 1].s = 429
          /\ trace[i].e = "backoff"
          /\ <<trace[i].s>> = (IF trace[i - 1].h = "absent" THEN <<5>>
                               ELSE ParseInt(trace[i - 1].h))
       \/ /\ trace[i - 1].s = NetworkError
          /\ trace[i].e = "errsleep"
          /\ trace[i].s = ErrorSleep

\* C11 as amended: a _fetch call on an uncached URL sleeps the politeness
\* delay once, right before its first GET; each retry GET comes right after
\* the back-off or error sleep of the GET before it, with no politeness sleep
\* of its own.  So no two GETs of an engine follow each other without a sleep.
C11_PoliteDelayOncePerCall ==
    \A t \in Tasks :
        LET trace == fetch[t].trace
            gets  == GetPlaces(trace)
        IN  /\ \A i \in DOMAIN trace : trace[i].e = "polite" => i = 1
            /\ \A i \in gets :
                IF i = Min(gets) THEN i = 2 /\ IsPolite(trace, 1)
                ELSE IsRetrySleep(trace, i - 1)

\* C11 at work: a call that was throttled, then hit a network error, then got
\* the page: one politeness sleep and three GETs
C11_Witness ==
    \E t \in Tasks :
        /\ FetchReturned(t)
        /\ Len(fetch[t].trace) = 6
        /\ IsPolite(fetch[t].trace, 1)
        /\ fetch[t].trace[2].s = 429
        /\ fetch[t].trace[4].s = NetworkError
        /\ fetch[t].trace[6].s = 200

\* every task has ended, with a result or an exception, and main has seen
\* them all
AllEnded ==
    /\ \A t \in Tasks : phase[t] \in {"returned", "raised"}
    /\ orch.yielded = Tasks
    /\ orch.pc = "wait"

DistinctDomains == \A s, t \in Tasks : s # t => Domain(s) # Domain(t)

\* C12: when the engine of one domain has raised and the run is over, that
\* domain has no entry in the output file nor in manager.results, and every
\* other domain has its entry in both.
C12_FailureIsolated ==
    (/\ DistinctDomains
     /\ AllEnded
     /\ \E t \in Tasks : phase[t] = "raised")
    => \A t \in Tasks :
        IF phase[t] = "raised"
        THEN /\ Domain(t) \notin DOMAIN file.data
             /\ Domain(t) \notin DOMAIN results
        ELSE /\ Domain(t) \in DOMAIN results
             /\ results[Domain(t)] = Sorted(product_urls[t])
             /\ file.ok
             /\ Domain(t) \in DOMAIN file.data
             /\ file.data[Domain(t)] = Sorted(product_urls[t])

\* main takes the result of task t and computes what it will write
MainMerges(t) ==
    /\ orch.pc = "wait"
    /\ orch'.pc = "read"
    /\ orch'.cur = t

\* a worker reads the output file and computes what it will write
WorkerMerges(t) ==
    /\ phase[t] = "locked"
    /\ phase'[t] = "merged"

\* C13: whenever a completed domain is merged, by its worker or by main, what
\* is written is the store as read with the entry of the raw domain string
\* set to the sorted union of its stored list and the new URLs; so a domain
\* string submitted twice ends with the union of both results.
C13_CompletionMergesByUnion ==
    [][\A t \in Tasks :
        /\ MainMerges(t) =>
                orch'.data = Merged(read_existing_json, Domain(t),
                                    SeqToSet(future[t].result[2]))
        /\ WorkerMerges(t) =>
                existing_data'[t] = Merged(file.data, Domain(t), product_urls[t])]_vars

\* no step takes a URL out of visited_urls or product_urls
SetsOnlyGrow ==
    \A t \in Tasks :
        /\ visited_urls[t] \subseteq visited_urls'[t]
        /\ product_urls[t] \subseteq product_urls'[t]

\* page was fetched with success by task t, at depth MAX_DEPTH or less
FetchedOk(t, page) ==
    /\ page \in DOMAIN cache[t]
    /\ \E i \in DOMAIN fetchLog[t] :
        fetchLog[t][i][1] = page /\ fetchLog[t][i][2] <= MAX_DEPTH

\* every product URL of an engine has a host that contains the domain's
\* host, matches a product pattern and is a link of a page fetched with
\* success within the depth limit
ProductsSound ==
    \A t \in Tasks :
        \A u \in product_urls[t] :
            /\ IsInfix(Netloc(Domain(t)), u.host)
            /\ \E i \in 1..Len(PRODUCT_PATTERNS) : Matches(PRODUCT_PATTERNS[i], u)
            /\ \E page \in visited_urls[t] :
                /\ FetchedOk(t, page)
                /\ u \in SeqToSet(Links(shape, Netloc(Domain(t)), page))

\* C14: visited_urls and product_urls only grow, and every product URL is a
\* same-site link that matches a product pattern and was found on a page
\* fetched with success at depth MAX_DEPTH or less.
C14_SetsGrowProductsSound == [][SetsOnlyGrow]_vars /\ []ProductsSound

\* C14 at work: a page with a product link on another site, one on a
\* subdomain and one behind a further page: the crawl is over and holds the
\* two same-site ones only
C14_Witness ==
    /\ shape = "mixed"
    /\ \E t \in Tasks :
        /\ Traversed(t)
        /\ product_urls[t] = {Url(SubHost(A), "prod", 1), Url(A, "prod", 4)}

\* The fetches a depth-first walk in document order makes, as <<url, depth>>
\* in the order made, appended to log: the walk from u at depth, and the walk
\* over the links of a page from the i-th on.  A page's links are walked when
\* its fetch succeeded (it is in the cache of task t).
RECURSIVE Walk(_, _, _, _), WalkLinks(_, _, _, _, _)
Walk(t, u, depth, log) ==
    IF \/ \E i \in DOMAIN log : log[i][1] = u
       \/ depth > MAX_DEPTH
       \/ ~_can_fetch(t, u)
    THEN log
    ELSE LET log1 == Append(log, <<u, depth>>)
         IN  IF u \in DOMAIN cache[t]
             THEN WalkLinks(t, Links(shape, Netloc(Domain(t)), u), 1, depth, log1)
             ELSE log1

WalkLinks(t, links, i, depth, log) ==
    IF i > Len(links) THEN log
    ELSE IF ~IsInfix(Netloc(Domain(t)), links[i].host)
         THEN WalkLinks(t, links, i + 1, depth, log)
         ELSE WalkLinks(t, links, i + 1, depth, Walk(t, links[i], depth + 1, log))

\* the frames of task t in which a _fetch call is under way or just back
FetchingFrames(t) ==
    {k \in DOMAIN stack[t] : stack[t][k].pc \in {"delay", "attempt", "fetched"}}

\* every call of _crawl_url but the innermost waits in its link loop for the
\* call it made on the link before its index
CallersWait(t) ==
    \A k \in 1..(Len(stack[t]) - 1) :
        /\ stack[t][k].pc = "links"
        /\ stack[t][k].idx - 1 \in 1..Len(Links(shape, Netloc(Domain(t)), stack[t][k].url))
        /\ stack[t][k + 1].url =
                Links(shape, Netloc(Domain(t)), stack[t][k].url)[stack[t][k].idx - 1]
        /\ stack[t][k + 1].depth = stack[t][k].depth + 1

\* C15: the traversal is depth-first in the link order of the pages: the
\* fetches of an ended traversal are those of the depth-first walk, in its
\* order; while it runs, at most one fetch of the engine is under way, in the
\* innermost call, and every outer call waits at the link it descended into.
C15_DepthFirstInLinkOrder ==
    \A t \in Tasks :
        /\ Cardinality(FetchingFrames(t)) <= 1
        /\ FetchingFrames(t) \subseteq {Len(stack[t])}
        /\ CallersWait(t)
        /\ Traversed(t) => fetchLog[t] = Walk(t, BaseUrl(Domain(t)), 0, <<>>)

\* C15 at work: each page links to the next page and then to its product:
\* the pages are fetched down to the depth limit before any product, and
\* the products of the deepest pages first
C15_Witness ==
    /\ shape = "shop"
    /\ \E t \in Tasks :
        /\ Traversed(t)
        /\ Len(fetchLog[t]) = 2 * MAX_DEPTH + 1
        /\ \A i \in 1..(MAX_DEPTH + 1) : fetchLog[t][i] = <<Pg(A, i - 1), i - 1>>
        /\ \A i \in 1..MAX_DEPTH :
                fetchLog[t][MAX_DEPTH + 1 + i] =
                    <<Url(A, "prod", MAX_DEPTH - i), MAX_DEPTH + 1 - i>>

\* the traversal of task t has begun: a call of _crawl_url was made
TraversalBegun(t) ==
    stack[t] # <<>> \/ visited_urls[t] # {} \/ fetchLog[t] # <<>> \/ fetch[t] # NoFetch

\* no call of _crawl_url, hence no can_fetch decision and no fetch, before
\* _load_and_parse_robots_txt has returned
NoCrawlBeforeRobots ==
    \A t \in Tasks :
        /\ TraversalBegun(t) => loads[t] # <<>> /\ phase[t] \notin {"queued", "init", "robots"}
        /\ phase[t] \in {"queued", "init"} =>
                loads[t] = <<>> /\ effective_user_agent[t] = None /\ robot_parser[t] = NewParser

\* the steps of an engine from one position to the next
EngineSteps ==
    {<<"queued", "init">>, <<"init", "robots">>, <<"robots", "crawling">>,
     <<"crawling", "locked">>, <<"crawling", "raised">>, <<"locked", "merged">>,
     <<"locked", "returned">>, <<"merged", "opened">>, <<"opened", "returned">>}

\* an engine moves forward only, and once robots loading is over no step
\* changes its user agent or its parser
PolicyFrozen ==
    \A t \in Tasks :
        /\ phase'[t] # phase[t] => <<phase[t], phase'[t]>> \in EngineSteps
        /\ RobotsDone(t) =>
                /\ effective_user_agent'[t] = effective_user_agent[t]
                /\ robot_parser'[t] = robot_parser[t]
                /\ loads'[t] = loads[t]

\* C16: an engine goes from construction to robots loading to the traversal
\* to its end, in this order; nothing is fetched or decided by can_fetch
\* before robots loading is over, and the user agent and the rules stay as
\* loaded from then on.
C16_RobotsBeforeCrawl == []NoCrawlBeforeRobots /\ [][PolicyFrozen]_vars

\* C16 at work: robots.txt was loaded with a rule for Googlebot, the
\* traversal has fetched pages and ended with the agent chosen at the load
C16_Witness ==
    /\ robots_txt = BotEntry
    /\ \E t \in Tasks :
        /\ Traversed(t)
        /\ RobotsFetched(t)
        /\ effective_user_agent[t] = "Googlebot"
        /\ Len(fetchLog[t]) >= 2

\* the traversal of task t from the root has returned
TraversalOver(t) ==
    /\ stack[t] = <<>>
    /\ phase[t] \in {"crawling", "locked", "merged", "opened", "returned"}

\* the stores the model holds: the file, and what a worker or main has
\* computed and is about to write
StoreCopies ==
    {file.data, orch.data} \cup {existing_data[t] : t \in Tasks}

\* C17: nothing reaches the output file for a domain whose traversal is
\* still under way: every entry of the store, written or about to be, is
\* that of a domain string whose traversal has returned, and each of its
\* URLs is a product URL of such a traversal; whoever is writing writes for
\* a traversal that has returned.
C17_PersistAfterTraversal ==
    /\ \A data \in StoreCopies :
        \A d \in DOMAIN data :
            /\ \E t \in Tasks : Domain(t) = d /\ TraversalOver(t)
            /\ \A u \in SeqToSet(data[d]) :
                \E t \in Tasks : Domain(t) = d /\ TraversalOver(t) /\ u \in product_urls[t]
    /\ \A t \in Tasks :
        (phase[t] \in {"locked", "merged", "opened"} \/ orch.cur = t) => TraversalOver(t)

\* C17 at work: a.com is in the file with its product URL after its
\* traversal; b.com has found its product URL, is still traversing, and is
\* not in the file
C17_Witness ==
    /\ file.ok
    /\ DOMAIN file.data = {"a.com"}
    /\ file.data["a.com"] # <<>>
    /\ \E t \in Tasks :
        /\ Domain(t) = "b.com"
        /\ phase[t] = "crawling"
        /\ stack[t] # <<>>
        /\ product_urls[t] # {}

\* C18: on every link graph, with cycles or with chains longer than the depth
\* limit, and whatever the page requests answer, every crawl comes to its
\* end: the traversal returns and the task finishes, or a fetch has raised.
C18_CrawlTerminates ==
    <>(\A t \in Tasks : Done(t) \/ phase[t] = "raised")

\* C18 at work: on the graph where every page links to itself, to the next
\* page and to the root, the crawl has ended after the pages within the depth
\* limit, one of them given up after three attempts
C18_Witness ==
    /\ shape = "loop"
    /\ \E t \in Tasks :
        /\ Done(t)
        /\ visited_urls[t] = {Pg(A, i) : i \in 0..MAX_DEPTH}
        /\ DOMAIN cache[t] = {Pg(A, i) : i \in 0..(MAX_DEPTH - 1)}

\* the same-site links of page u of the site task t crawls
SiteLinks(t, u) ==
    {l \in SeqToSet(Links(shape, Netloc(Domain(t)), u)) : IsInfix(Netloc(Domain(t)), l.host)}

RECURSIVE Within(_, _)
\* the URLs at k links or less from the root of the site of task t
Within(t, k) ==
    IF k = 0 THEN {BaseUrl(Domain(t))}
    ELSE LET nearer == Within(t, k - 1)
         IN  nearer \cup UNION {SiteLinks(t, u) : u \in nearer}

\* every fetch task t has made succeeded, and robots allows it every URL
AllServed(t) ==
    /\ visited_urls[t] = DOMAIN cache[t]
    /\ \A u \in SiteUrls(Netloc(Domain(t))) : _can_fetch(t, u)

\* C19: when every fetch succeeds and robots allows every URL, an ended
\* traversal has fetched every same-site URL at MAX_DEPTH links or less from
\* the root, and holds every product link of those pages.
C19_CompleteWithinDepth ==
    \A t \in Tasks :
        (Traversed(t) /\ AllServed(t)) =>
            \A u \in Within(t, MAX_DEPTH) :
                /\ u \in DOMAIN cache[t]
                /\ \A l \in SiteLinks(t, u) : _is_product_url(l) => l \in product_urls[t]

\* the cached URLs are visited ones, no _fetch call has taken the cache-hit
\* branch, and a _fetch call that is back has its URL in the cache exactly
\* when its last GET answered 200
CacheSound ==
    \A t \in Tasks :
        /\ DOMAIN cache[t] \subseteq visited_urls[t]
        /\ \A i \in DOMAIN fetch[t].trace : fetch[t].trace[i].e # "hit"
        /\ FetchReturned(t) =>
            LET gets == Gets(fetch[t].trace)
            IN  Top(t).url \in DOMAIN cache[t] <=> (gets # <<>> /\ gets[Len(gets)].s = 200)

\* this step of task t is a GET answered 200
Got200(t) ==
    /\ Len(fetch'[t].trace) = Len(fetch[t].trace) + 1
    /\ fetch'[t].trace[Len(fetch'[t].trace)].e = "get"
    /\ fetch'[t].trace[Len(fetch'[t].trace)].s = 200

\* a GET answered 200 puts the URL of the call into the cache; no other step
\* changes the cache
CacheStep ==
    \A t \in Tasks :
        IF Got200(t)
        THEN /\ DOMAIN cache'[t] = DOMAIN cache[t] \cup {Top(t).url}
             /\ \A u \in DOMAIN cache[t] : cache'[t][u] = cache[t][u]
        ELSE cache'[t] = cache[t]

\* C20: the keys of an engine's cache are the URLs whose fetch was answered
\* 200, all of them visited; a fetch that fails leaves the cache as it was;
\* and no _fetch call of a crawl finds its URL in the cache.
C20_CacheHolds200sOnly == []CacheSound /\ [][CacheStep]_vars

\* C20 at work: a crawl that has ended with two pages fetched and cached and
\* a third fetched without success and not cached
C20_Witness ==
    /\ shape = "chain"
    /\ \E t \in Tasks :
        /\ Traversed(t)
        /\ DOMAIN cache[t] = {Pg(A, 0), Pg(A, 1)}
        /\ visited_urls[t] = {Pg(A, 0), Pg(A, 1), Pg(A, 2)}

====
